---- MODULE Spec2Model ----
(***************************************************************************)
(* Battery cell monitor: the chemistry profile table (get_cell_specs), the *)
(* reading generator (generate_cell_data), the status classifier           *)
(* (get_cell_status), the Streamlit dashboard script that drives them      *)
(* (p4.py) and the console script (p2.py).                                 *)
(*                                                                         *)
(* Quantities are fixed point integers:                                    *)
(*   voltage      millivolt        (3.2 V   = 3200)                        *)
(*   current      centiampere      (5.00 A  = 500), raw draws in mA        *)
(*   temperature  tenth of a degree (40.0 C = 400), raw draws in 0.01 C    *)
(*   capacity     hundredth        (18.02   = 1802)                        *)
(* Strings are sequences of one-character strings.                         *)
(***************************************************************************)
EXTENDS Integers, Sequences, FiniteSets, TLC

VARIABLES
    \* get_cell_specs called on an arbitrary string
    lk_code, lk_result, lk_pc,
    \* one reading generated by generate_cell_data / classified
    g_code, g_reading, g_status, g_pc,
    \* dashboard widgets: the slider, the select boxes, the Auto Refresh
    \* checkbox, and whether the running script run was started by a click
    \* on Update Data
    num_cells, sel, auto_widget, button,
    \* st.session_state
    cells_data, cell_types, auto_refresh,
    \* the script run: position, loop index, the status grid it has drawn
    pc, idx, page,
    \* bookkeeping: what started the current refresh cycle, whether the cycle
    \* has completed a generation pass, the cell types that pass used
    trigger, regen, gen_types,
    \* the console script (p2.py): its two globals and its position
    list_of_cell, p2_cells_data, p2_pc

lookupVars == <<lk_code, lk_result, lk_pc>>
genVars == <<g_code, g_reading, g_status, g_pc>>
widgetVars == <<num_cells, sel, auto_widget, button>>
sessionVars == <<cells_data, cell_types, auto_refresh>>
runVars == <<pc, idx, page>>
cycleVars == <<trigger, regen, gen_types>>
dashVars == <<widgetVars, sessionVars, runVars, cycleVars>>
p2Vars == <<list_of_cell, p2_cells_data, p2_pc>>
vars == <<lookupVars, genVars, dashVars, p2Vars>>

----------------------------------------------------------------------------
(* Strings *)

\* "lfp", "nmc", "lco", "lmo" as character sequences
S_lfp == <<"l", "f", "p">>
S_nmc == <<"n", "m", "c">>
S_lco == <<"l", "c", "o">>
S_lmo == <<"l", "m", "o">>

\* the characters the inputs are built from: both cases of the letters of
\* the four codes, a letter outside them and a blank
Alphabet ==
    {"l", "f", "p", "n", "m", "c", "o", "L", "F", "P", "N", "M", "C", "O", "x", "y",
     "z", " "}

\* str.lower() on one character
LowerChar(c) ==
    CASE c = "L" -> "l"
      [] c = "F" -> "f"
      [] c = "P" -> "p"
      [] c = "N" -> "n"
      [] c = "M" -> "m"
      [] c = "C" -> "c"
      [] c = "O" -> "o"
      [] OTHER -> c

\* str.lower()
Lower(s) == [i \in 1..Len(s) |-> LowerChar(s[i])]

----------------------------------------------------------------------------
(* Arithmetic *)

Abs(x) == IF x < 0 THEN -x ELSE x

Max2(a, b) == IF a >= b THEN a ELSE b

Min2(a, b) == IF a <= b THEN a ELSE b

\* round(): the multiple of d nearest to x, expressed in units of d; an exact
\* tie goes to the even neighbour
RoundHalfEven(x, d) ==
    LET q == x \div d
        r == x % d
    IN  IF 2 * r < d THEN q
        ELSE IF 2 * r > d THEN q + 1
        ELSE IF q % 2 = 0 THEN q ELSE q + 1

----------------------------------------------------------------------------
(* Chemistry profile table *)

\* the table with the LCO nominal voltage mistyped as 2.7
specs_NominalTypo ==
    (S_lfp :> [voltage |-> 3200, min_voltage |-> 2800, max_voltage |-> 3600,
               color |-> "#2E8B57"]) @@
    (S_nmc :> [voltage |-> 3600, min_voltage |-> 3200, max_voltage |-> 4000,
               color |-> "#4169E1"]) @@
    (S_lco :> [voltage |-> 2700, min_voltage |-> 3000, max_voltage |-> 4200,
               color |-> "#FF6347"]) @@
    (S_lmo :> [voltage |-> 3800, min_voltage |-> 3200, max_voltage |-> 4300,
               color |-> "#32CD32"])

\* the specs dictionary of get_cell_specs
specs ==
    (S_lfp :> [voltage |-> 3200, min_voltage |-> 2800, max_voltage |-> 3600,
               color |-> "#2E8B57"]) @@
    (S_nmc :> [voltage |-> 3600, min_voltage |-> 3200, max_voltage |-> 4000,
               color |-> "#4169E1"]) @@
    (S_lco :> [voltage |-> 3700, min_voltage |-> 3000, max_voltage |-> 4200,
               color |-> "#FF6347"]) @@
    (S_lmo :> [voltage |-> 3800, min_voltage |-> 3200, max_voltage |-> 4300,
               color |-> "#32CD32"])

\* the lookup without .lower()
get_cell_specs_NoLower(cell_type) ==
    IF cell_type \in DOMAIN specs
    THEN specs[cell_type]
    ELSE specs[S_nmc]

\* specs.get(cell_type.lower(), specs["nmc"])
get_cell_specs(cell_type) ==
    IF Lower(cell_type) \in DOMAIN specs
    THEN specs[Lower(cell_type)]
    ELSE specs[S_nmc]

----------------------------------------------------------------------------
(* Reading generator *)

\* the clamp of the perturbed voltage into [min_voltage, max_voltage]
ClampVoltage(sp, v) == Max2(sp.min_voltage, Min2(sp.max_voltage, v))

\* generate_cell_data returning max_voltage under the key min_voltage
generate_cell_data_WrongBound(cell_type, cell_id, u_var, u_cur, u_temp) ==
    LET sp == get_cell_specs(cell_type)
        voltage == ClampVoltage(sp, sp.voltage + u_var)
        current == RoundHalfEven(u_cur, 10)
        temp == RoundHalfEven(u_temp, 10)
        capacity == RoundHalfEven(Abs(voltage * current), 1000)
    IN  [voltage |-> 10 * RoundHalfEven(voltage, 10),
         current |-> current,
         temp |-> temp,
         capacity |-> capacity,
         min_voltage |-> sp.max_voltage,
         max_voltage |-> sp.max_voltage,
         color |-> sp.color]

\* generate_cell_data; the three random.uniform draws are parameters:
\* u_var in mV, u_cur in mA, u_temp in 0.01 C
generate_cell_data(cell_type, cell_id, u_var, u_cur, u_temp) ==
    LET sp == get_cell_specs(cell_type)
        voltage == ClampVoltage(sp, sp.voltage + u_var)
        current == RoundHalfEven(u_cur, 10)
        temp == RoundHalfEven(u_temp, 10)
        capacity == RoundHalfEven(Abs(voltage * current), 1000)
    IN  [voltage |-> 10 * RoundHalfEven(voltage, 10),
         current |-> current,
         temp |-> temp,
         capacity |-> capacity,
         min_voltage |-> sp.min_voltage,
         max_voltage |-> sp.max_voltage,
         color |-> sp.color]

----------------------------------------------------------------------------
(* Status classifier *)

\* sign of the rounding error of the double product bound * factor that
\* get_cell_status compares with (pct is the factor in percent): 3.2 * 1.05
\* is 3.3600000000000003, 4.2 * 0.95 is 3.9899999999999998; 0 where the
\* product is the double nearest to the exact value
ProductError(bound, pct) ==
    CASE bound = 3200 /\ pct = 105 -> 1
      [] bound = 3200 /\ pct = 110 -> 1
      [] bound = 3000 /\ pct = 105 -> 1
      [] bound = 3000 /\ pct = 110 -> 1
      [] bound = 4200 /\ pct = 95 -> -1
      [] bound = 4200 /\ pct = 90 -> 1
      [] OTHER -> 0

\* voltage < bound * factor
Below(voltage, bound, pct) ==
    \/ 100 * voltage < bound * pct
    \/ 100 * voltage = bound * pct /\ ProductError(bound, pct) > 0

\* voltage > bound * factor
Above(voltage, bound, pct) ==
    \/ 100 * voltage > bound * pct
    \/ 100 * voltage = bound * pct /\ ProductError(bound, pct) < 0

\* get_cell_status testing the warning condition first
get_cell_status_WarningFirst(cell_data) ==
    LET voltage == cell_data.voltage
        temp == cell_data.temp
        min_v == cell_data.min_voltage
        max_v == cell_data.max_voltage
    IN  IF Below(voltage, min_v, 110) \/ Above(voltage, max_v, 90) \/ temp > 350
        THEN <<"warning", "high_voltage">>
        ELSE IF Below(voltage, min_v, 105) \/ Above(voltage, max_v, 95) \/ temp > 400
        THEN <<"critical", "warning_sign">>
        ELSE <<"normal", "check_mark">>

\* get_cell_status with the critical low factor 0.95 in place of 1.05
get_cell_status_LowFactor(cell_data) ==
    LET voltage == cell_data.voltage
        temp == cell_data.temp
        min_v == cell_data.min_voltage
        max_v == cell_data.max_voltage
    IN  IF Below(voltage, min_v, 95) \/ Above(voltage, max_v, 95) \/ temp > 400
        THEN <<"critical", "warning_sign">>
        ELSE IF Below(voltage, min_v, 110) \/ Above(voltage, max_v, 90) \/ temp > 350
        THEN <<"warning", "high_voltage">>
        ELSE <<"normal", "check_mark">>

\* get_cell_status with temp >= 40 as the critical temperature test
get_cell_status_TempInclusive(cell_data) ==
    LET voltage == cell_data.voltage
        temp == cell_data.temp
        min_v == cell_data.min_voltage
        max_v == cell_data.max_voltage
    IN  IF Below(voltage, min_v, 105) \/ Above(voltage, max_v, 95) \/ temp >= 400
        THEN <<"critical", "warning_sign">>
        ELSE IF Below(voltage, min_v, 110) \/ Above(voltage, max_v, 90) \/ temp > 350
        THEN <<"warning", "high_voltage">>
        ELSE <<"normal", "check_mark">>

\* get_cell_status: the pair (status, icon)
get_cell_status(cell_data) ==
    LET voltage == cell_data.voltage
        temp == cell_data.temp
        min_v == cell_data.min_voltage
        max_v == cell_data.max_voltage
    IN  IF Below(voltage, min_v, 105) \/ Above(voltage, max_v, 95) \/ temp > 400
        THEN <<"critical", "warning_sign">>
        ELSE IF Below(voltage, min_v, 110) \/ Above(voltage, max_v, 90) \/ temp > 350
        THEN <<"warning", "high_voltage">>
        ELSE <<"normal", "check_mark">>

----------------------------------------------------------------------------
(* Bounds and input sets *)

\* longest string handed to get_cell_specs
MaxCodeLen == 3

\* every string over Alphabet of length at most MaxCodeLen
Codes == UNION {[1..n -> Alphabet] : n \in 0..MaxCodeLen}

\* chemistry codes handed to generate_cell_data: the four codes in several
\* spellings and three unrecognized ones
GenCodes ==
    {S_lfp, <<"L", "F", "P">>, <<"N", "m", "c">>, S_nmc, S_lco,
     <<"L", "M", "O">>, <<"x", "y", "z">>, <<>>, <<" ", "l", "f", "p">>}

\* random.uniform(-0.1, 0.1) in mV
VarDraws == -100..100

\* random.uniform(-5.0, 5.0) in mA
CurDraws == {-5000, -2504, -15, -4, 0, 4, 1250, 4996, 5000}

\* random.uniform(25, 45) in 0.01 C
TempDraws == {2500, 3000, 3500, 3506, 3996, 4000, 4004, 4006, 4500}

\* readings handed to get_cell_status directly
ProbeVoltages == 2600..4500

ProbeTemps == {250, 300, 350, 351, 400, 401, 410, 450}

NoResult == [voltage |-> 0, min_voltage |-> 0, max_voltage |-> 0, color |-> "none"]

NoReading ==
    [voltage |-> 0, current |-> 0, temp |-> 0, capacity |-> 0,
     min_voltage |-> 0, max_voltage |-> 0, color |-> "none"]

NoStatus == <<"none", "none">>

\* most cells the slider allows (12 in the dashboard)
MaxCells == 2

\* the random draws (u_var, u_cur, u_temp) of the dashboard's generator calls
DashDraws == {<<4, 5000, 3000>>, <<-100, -15, 4104>>}

\* number of cell types the console script asks for (8 in p2.py)
P2Cells == 2

\* lines typed at the console script's prompt
P2Inputs ==
    {<<" ", "L", "F", "P", " ">>, <<"n", "m", "c">>, <<"L", "c", "o">>,
     <<"l", "m", "o", " ">>, <<"x", "y", "z">>, <<>>}

\* random.uniform(25, 40) in 0.01 C
P2TempDraws == {2500, 3504, 4000}

LookupIdle == lk_code = <<>> /\ lk_result = NoResult /\ lk_pc = "idle"

GenIdle == g_code = <<>> /\ g_reading = NoReading /\ g_status = NoStatus /\ g_pc = "idle"

P2Idle == list_of_cell = <<>> /\ p2_cells_data = <<>> /\ p2_pc = "off"

DashIdle ==
    /\ num_cells = 0 /\ sel = <<>> /\ auto_widget = FALSE /\ button = FALSE
    /\ cells_data = <<>> /\ cell_types = <<>> /\ auto_refresh = FALSE
    /\ pc = "off" /\ idx = 0 /\ page = <<>>
    /\ trigger = "none" /\ regen = FALSE /\ gen_types = <<>>

----------------------------------------------------------------------------
(* get_cell_specs on every string *)

InitLookup ==
    /\ lk_code \in Codes
    /\ lk_result = NoResult
    /\ lk_pc = "call"
    /\ GenIdle
    /\ DashIdle
    /\ P2Idle

Lookup ==
    /\ lk_pc = "call"
    /\ lk_result' = get_cell_specs(lk_code)
    /\ lk_pc' = "returned"
    /\ UNCHANGED <<lk_code, genVars, dashVars, p2Vars>>

NextLookup == Lookup

SpecLookup == InitLookup /\ [][NextLookup]_vars

----------------------------------------------------------------------------
(* generate_cell_data followed by get_cell_status *)

InitGen ==
    /\ g_code \in GenCodes
    /\ g_reading = NoReading
    /\ g_status = NoStatus
    /\ g_pc = "start"
    /\ LookupIdle
    /\ DashIdle
    /\ P2Idle

Generate ==
    /\ g_pc = "start"
    /\ \E u_var \in VarDraws, u_cur \in CurDraws, u_temp \in TempDraws :
           g_reading' = generate_cell_data(g_code, 1, u_var, u_cur, u_temp)
    /\ g_pc' = "generated"
    /\ UNCHANGED <<g_code, g_status, lookupVars, dashVars, p2Vars>>

Classify ==
    /\ g_pc = "generated"
    /\ g_status' = get_cell_status(g_reading)
    /\ g_pc' = "classified"
    /\ UNCHANGED <<g_code, g_reading, lookupVars, dashVars, p2Vars>>

NextGen == Generate \/ Classify

SpecGen == InitGen /\ [][NextGen]_vars

----------------------------------------------------------------------------
(* get_cell_status on arbitrary readings carrying a profile's bounds *)

InitClassify ==
    /\ g_code \in {S_lfp, S_nmc, S_lco, S_lmo}
    /\ g_reading = NoReading
    /\ g_status = NoStatus
    /\ g_pc = "start"
    /\ LookupIdle
    /\ DashIdle
    /\ P2Idle

Probe ==
    /\ g_pc = "start"
    /\ \E v \in ProbeVoltages, t \in ProbeTemps :
           g_reading' = [voltage |-> v, current |-> 0, temp |-> t, capacity |-> 0,
                         min_voltage |-> specs[g_code].min_voltage,
                         max_voltage |-> specs[g_code].max_voltage,
                         color |-> specs[g_code].color]
    /\ g_pc' = "generated"
    /\ UNCHANGED <<g_code, g_status, lookupVars, dashVars, p2Vars>>

NextClassify == Probe \/ Classify

SpecClassify == InitClassify /\ [][NextClassify]_vars

----------------------------------------------------------------------------
(* The dashboard script (p4.py lines 128-304) *)

\* the options of the cell type select boxes
Options == {<<"L", "F", "P">>, <<"N", "M", "C">>, <<"L", "C", "O">>, <<"L", "M", "O">>}

\* a select box shows its first option until the user picks another
DefaultOption == <<"L", "F", "P">>

\* the slider's initial value
DefaultCells == Min2(8, MaxCells)

\* str() of a cell ordinal
RECURSIVE Str(_)
Str(n) ==
    LET Digit == <<"0", "1", "2", "3", "4", "5", "6", "7", "8", "9">>
    IN  IF n < 10 THEN <<Digit[n + 1]>>
        ELSE Str(n \div 10) \o <<Digit[(n % 10) + 1]>>

\* the f-string of a key numbered one too low
CellKey_FromZero(i, cell_type) ==
    <<"c", "e", "l", "l", "_">> \o Str(i - 1) \o <<"_">> \o cell_type

\* f"cell_{idx}_{cell_type}"
CellKey(i, cell_type) ==
    <<"c", "e", "l", "l", "_">> \o Str(i) \o <<"_">> \o cell_type

\* d[key] = value on an insertion-ordered dict held as a sequence of
\* key/data pairs
DictPut(d, key, value) ==
    IF \E i \in 1..Len(d) : d[i].key = key
    THEN [i \in 1..Len(d) |-> IF d[i].key = key THEN [key |-> key, data |-> value] ELSE d[i]]
    ELSE Append(d, [key |-> key, data |-> value])

InitDash ==
    /\ num_cells = DefaultCells
    /\ sel = [i \in 1..MaxCells |-> DefaultOption]
    /\ auto_widget = FALSE
    /\ button = FALSE
    /\ cells_data = <<>>
    /\ cell_types = <<>>
    /\ auto_refresh = FALSE
    /\ pc = "sidebar"
    /\ idx = 0
    /\ page = <<>>
    /\ trigger = "load"
    /\ regen = FALSE
    /\ gen_types = <<>>
    /\ LookupIdle
    /\ GenIdle
    /\ P2Idle

\* lines 137-148: the slider and one select box per cell; a select box that
\* is no longer drawn loses its value
Sidebar ==
    /\ pc = "sidebar"
    /\ cell_types' = [i \in 1..num_cells |-> Lower(sel[i])]
    /\ sel' = [i \in 1..MaxCells |-> IF i <= num_cells THEN sel[i] ELSE DefaultOption]
    /\ page' = <<>>
    /\ pc' = "button"
    /\ UNCHANGED <<num_cells, auto_widget, button, cells_data, auto_refresh, idx,
                   cycleVars, lookupVars, genVars, p2Vars>>

\* lines 157-159: the Update Data button
UpdateButton ==
    /\ pc = "button"
    /\ IF button
       THEN /\ cells_data' = <<>>
            /\ gen_types' = cell_types
            /\ idx' = 1
            /\ pc' = "update_loop"
       ELSE /\ pc' = "checkbox"
            /\ UNCHANGED <<cells_data, gen_types, idx>>
    /\ UNCHANGED <<widgetVars, cell_types, auto_refresh, page, trigger, regen,
                   lookupVars, genVars, p2Vars>>

\* lines 160-162: one iteration of the loop under the button
UpdateLoop ==
    /\ pc = "update_loop"
    /\ idx <= Len(cell_types)
    /\ \E d \in DashDraws :
           cells_data' = DictPut(cells_data, CellKey(idx, cell_types[idx]),
                                 generate_cell_data(cell_types[idx], idx, d[1], d[2], d[3]))
    /\ idx' = idx + 1
    /\ regen' = (idx = Len(cell_types))
    /\ UNCHANGED <<widgetVars, cell_types, auto_refresh, pc, page, trigger, gen_types,
                   lookupVars, genVars, p2Vars>>

\* line 163: st.rerun() after the loop; the script starts over, the button
\* now reads False
UpdateRerun ==
    /\ pc = "update_loop"
    /\ idx > Len(cell_types)
    /\ button' = FALSE
    /\ pc' = "sidebar"
    /\ UNCHANGED <<num_cells, sel, auto_widget, sessionVars, idx, page, cycleVars,
                   lookupVars, genVars, p2Vars>>

\* lines 166-169: the Auto Refresh checkbox
Checkbox ==
    /\ pc = "checkbox"
    /\ auto_refresh' = auto_widget
    /\ pc' = IF auto_widget THEN "sleep" ELSE "initial"
    /\ UNCHANGED <<widgetVars, cells_data, cell_types, idx, page, cycleVars,
                   lookupVars, genVars, p2Vars>>

\* lines 170-172: time.sleep(refresh_rate) then st.rerun(); the script starts
\* over and a new refresh cycle begins
AutoRerun ==
    /\ pc = "sleep"
    /\ pc' = "sidebar"
    /\ trigger' = "auto"
    /\ regen' = FALSE
    /\ UNCHANGED <<widgetVars, sessionVars, idx, page, gen_types, lookupVars, genVars, p2Vars>>

\* line 175: generate initial data if there is none
InitialCheck ==
    /\ pc = "initial"
    /\ IF cells_data = <<>> /\ cell_types # <<>>
       THEN /\ idx' = 1
            /\ gen_types' = cell_types
            /\ pc' = "initial_loop"
       ELSE /\ pc' = "render"
            /\ UNCHANGED <<idx, gen_types>>
    /\ UNCHANGED <<widgetVars, sessionVars, page, trigger, regen, lookupVars, genVars, p2Vars>>

\* lines 176-178: one iteration of the initial loop, or its exit
InitialLoop ==
    /\ pc = "initial_loop"
    /\ IF idx <= Len(cell_types)
       THEN /\ \E d \in DashDraws :
                   cells_data' = DictPut(cells_data, CellKey(idx, cell_types[idx]),
                                         generate_cell_data(cell_types[idx], idx,
                                                            d[1], d[2], d[3]))
            /\ idx' = idx + 1
            /\ regen' = (idx = Len(cell_types))
            /\ UNCHANGED pc
       ELSE /\ pc' = "render"
            /\ UNCHANGED <<cells_data, idx, regen>>
    /\ UNCHANGED <<widgetVars, cell_types, auto_refresh, page, trigger, gen_types,
                   lookupVars, genVars, p2Vars>>

\* lines 181-304: the main dashboard: every entry of cells_data is read and
\* classified for the status grid, or the start page is shown
Render ==
    /\ pc = "render"
    /\ page' = IF cells_data # <<>>
               THEN [i \in 1..Len(cells_data) |->
                        [key |-> cells_data[i].key,
                         status |-> get_cell_status(cells_data[i].data)[1],
                         voltage |-> cells_data[i].data.voltage,
                         temp |-> cells_data[i].data.temp]]
               ELSE <<"info">>
    /\ pc' = "idle"
    /\ UNCHANGED <<widgetVars, sessionVars, idx, cycleVars, lookupVars, genVars, p2Vars>>

\* a widget interaction reaches the script when it has finished or while it
\* sleeps before an auto refresh; the script then runs again from the top
Interactive == pc \in {"idle", "sleep"}

\* the user moves the Number of Cells slider
SetNumCells ==
    /\ Interactive
    /\ \E n \in 1..MaxCells : n # num_cells /\ num_cells' = n
    /\ button' = FALSE
    /\ pc' = "sidebar"
    /\ trigger' = "widget"
    /\ regen' = FALSE
    /\ UNCHANGED <<sel, auto_widget, sessionVars, idx, page, gen_types, lookupVars, genVars, p2Vars>>

\* the user picks another type in a select box
SetCellType ==
    /\ Interactive
    /\ \E i \in 1..num_cells, t \in Options :
           t # sel[i] /\ sel' = [sel EXCEPT ![i] = t]
    /\ button' = FALSE
    /\ pc' = "sidebar"
    /\ trigger' = "widget"
    /\ regen' = FALSE
    /\ UNCHANGED <<num_cells, auto_widget, sessionVars, idx, page, gen_types,
                   lookupVars, genVars, p2Vars>>

\* the user clicks Update Data
ClickUpdate ==
    /\ Interactive
    /\ button' = TRUE
    /\ pc' = "sidebar"
    /\ trigger' = "update"
    /\ regen' = FALSE
    /\ UNCHANGED <<num_cells, sel, auto_widget, sessionVars, idx, page, gen_types,
                   lookupVars, genVars, p2Vars>>

\* the user ticks or unticks Auto Refresh
ToggleAuto ==
    /\ Interactive
    /\ auto_widget' = ~auto_widget
    /\ button' = FALSE
    /\ pc' = "sidebar"
    /\ trigger' = "widget"
    /\ regen' = FALSE
    /\ UNCHANGED <<num_cells, sel, sessionVars, idx, page, gen_types, lookupVars, genVars, p2Vars>>

Next ==
    \/ Sidebar \/ UpdateButton \/ UpdateLoop \/ UpdateRerun \/ Checkbox
    \/ AutoRerun \/ InitialCheck \/ InitialLoop \/ Render
    \/ SetNumCells \/ SetCellType \/ ClickUpdate \/ ToggleAuto

Spec == InitDash /\ [][Next]_vars

----------------------------------------------------------------------------
(* The console script (p2.py) *)

\* str.strip() for blanks
RECURSIVE Strip(_)
Strip(s) ==
    IF s = <<>> THEN s
    ELSE IF Head(s) = " " THEN Strip(Tail(s))
    ELSE IF s[Len(s)] = " " THEN Strip(SubSeq(s, 1, Len(s) - 1))
    ELSE s

\* lines 14-28 with the lower voltage limit of lfp mistyped as 2.5
P2Reading_MinTypo(cell_type, u_temp) ==
    LET voltage == IF cell_type = S_lfp THEN 3200 ELSE 3600
        current == 0
    IN  [voltage |-> voltage,
         current |-> current,
         temp |-> RoundHalfEven(u_temp, 10),
         capacity |-> RoundHalfEven(voltage * current, 1000),
         min_voltage |-> IF cell_type = S_lfp THEN 2500 ELSE 3200,
         max_voltage |-> IF cell_type = S_lfp THEN 3600 ELSE 4000]

\* lines 14-28: the entry the script stores for one cell type
P2Reading(cell_type, u_temp) ==
    LET voltage == IF cell_type = S_lfp THEN 3200 ELSE 3600
        current == 0
    IN  [voltage |-> voltage,
         current |-> current,
         temp |-> RoundHalfEven(u_temp, 10),
         capacity |-> RoundHalfEven(voltage * current, 1000),
         min_voltage |-> IF cell_type = S_lfp THEN 2800 ELSE 3200,
         max_voltage |-> IF cell_type = S_lfp THEN 3600 ELSE 4000]

InitP2 ==
    /\ list_of_cell = <<>>
    /\ p2_cells_data = <<>>
    /\ p2_pc = "input"
    /\ LookupIdle
    /\ GenIdle
    /\ DashIdle

\* lines 4-6: one prompt; the answer is stripped and lower-cased
P2Input ==
    /\ p2_pc = "input"
    /\ IF Len(list_of_cell) < P2Cells
       THEN /\ \E line \in P2Inputs :
                   list_of_cell' = Append(list_of_cell, Lower(Strip(line)))
            /\ UNCHANGED p2_pc
       ELSE /\ p2_pc' = "generate"
            /\ UNCHANGED list_of_cell
    /\ UNCHANGED <<p2_cells_data, lookupVars, genVars, dashVars>>

\* lines 10-28: one iteration of the generation loop
P2Generate ==
    /\ p2_pc = "generate"
    /\ Len(p2_cells_data) < Len(list_of_cell)
    /\ LET i == Len(p2_cells_data) + 1
       IN  \E u_temp \in P2TempDraws :
               p2_cells_data' = DictPut(p2_cells_data, CellKey(i, list_of_cell[i]),
                                        P2Reading(list_of_cell[i], u_temp))
    /\ UNCHANGED <<list_of_cell, p2_pc, lookupVars, genVars, dashVars>>

\* line 29: the loop is over, the script prints and ends
P2Print ==
    /\ p2_pc = "generate"
    /\ Len(p2_cells_data) = Len(list_of_cell)
    /\ p2_pc' = "done"
    /\ UNCHANGED <<list_of_cell, p2_cells_data, lookupVars, genVars, dashVars>>

NextP2 == P2Input \/ P2Generate \/ P2Print

SpecP2 == InitP2 /\ [][NextP2]_vars

----------------------------------------------------------------------------
(* Properties of the profile table *)

\* C1: get_cell_specs returns for every string; every upper/lower-case
\* spelling of lfp, nmc, lco, lmo yields that chemistry's row (nominal, min,
\* max) and every other string yields the NMC row.
C1_LookupTotalCaseInsensitive ==
    lk_pc = "returned" =>
        LET Cases == {<<"l", "L">>, <<"f", "F">>, <<"p", "P">>, <<"n", "N">>,
                      <<"m", "M">>, <<"c", "C">>, <<"o", "O">>}
            Spells(word) ==
                /\ Len(lk_code) = Len(word)
                /\ \A i \in 1..Len(word) :
                       lk_code[i] = word[i] \/ <<word[i], lk_code[i]>> \in Cases
            Row(nominal, lo, hi) ==
                /\ lk_result.voltage = nominal
                /\ lk_result.min_voltage = lo
                /\ lk_result.max_voltage = hi
        IN  /\ Spells(<<"l", "f", "p">>) => Row(3200, 2800, 3600)
            /\ Spells(<<"n", "m", "c">>) => Row(3600, 3200, 4000)
            /\ Spells(<<"l", "c", "o">>) => Row(3700, 3000, 4200)
            /\ Spells(<<"l", "m", "o">>) => Row(3800, 3200, 4300)
            /\ ~(\/ Spells(<<"l", "f", "p">>) \/ Spells(<<"n", "m", "c">>)
                 \/ Spells(<<"l", "c", "o">>) \/ Spells(<<"l", "m", "o">>))
                   => Row(3600, 3200, 4000)

C1_Witness ==
    /\ lk_pc = "returned"
    /\ lk_code = <<"L", "f", "P">>
    /\ lk_result.voltage = 3200
    /\ lk_result.max_voltage = 3600

\* C8: for each of the four supported codes the returned profile satisfies
\* min_voltage < nominal voltage < max_voltage.
C8_ProfileOrdered ==
    (/\ lk_pc = "returned"
     /\ lk_code \in {<<"L", "F", "P">>, <<"N", "M", "C">>, <<"L", "C", "O">>,
                     <<"L", "M", "O">>, <<"l", "f", "p">>, <<"n", "m", "c">>,
                     <<"l", "c", "o">>, <<"l", "m", "o">>})
        => /\ lk_result.min_voltage < lk_result.voltage
           /\ lk_result.voltage < lk_result.max_voltage

C8_Witness ==
    /\ lk_pc = "returned"
    /\ lk_code = <<"L", "C", "O">>
    /\ lk_result.min_voltage = 3000
    /\ lk_result.voltage = 3700

----------------------------------------------------------------------------
(* Properties of generated readings *)

\* C2: in every generated reading capacity is round(abs(voltage * current), 2)
\* of the voltage and current stored in that reading, and capacity >= 0.
C2_CapacityOfStoredFields ==
    g_pc \in {"generated", "classified"} =>
        /\ g_reading.capacity
               = RoundHalfEven(Abs(g_reading.voltage * g_reading.current), 1000)
        /\ g_reading.capacity >= 0

\* C5: in every generated reading the stored voltage lies between the
\* min_voltage and max_voltage stored in the same reading.
C5_VoltageWithinBounds ==
    g_pc \in {"generated", "classified"} =>
        /\ g_reading.min_voltage <= g_reading.voltage
        /\ g_reading.voltage <= g_reading.max_voltage

C5_Witness ==
    /\ g_pc = "generated"
    /\ g_code = <<"x", "y", "z">>
    /\ g_reading.voltage = 3700
    /\ g_reading.max_voltage = 4000

\* C10: a generated reading is classified critical exactly when its
\* temperature exceeds 40; its voltage never meets voltage < min_voltage*1.05
\* nor voltage > max_voltage*0.95.
C10_CriticalOnlyByTemperature ==
    /\ g_pc \in {"generated", "classified"} =>
           /\ ~Below(g_reading.voltage, g_reading.min_voltage, 105)
           /\ ~Above(g_reading.voltage, g_reading.max_voltage, 95)
    /\ g_pc = "classified" =>
           (g_status[1] = "critical" <=> g_reading.temp > 400)

C10_Witness ==
    /\ g_pc = "classified"
    /\ g_reading.temp = 401
    /\ g_status[1] = "critical"
    /\ g_reading.voltage = 3900

----------------------------------------------------------------------------
(* Properties of the classifier *)

\* C3 as stated: the LFP reading with voltage 2.90 and temperature 30 is
\* classified warning.
C3_LfpLowVoltageWarning ==
    (/\ g_pc = "classified"
     /\ g_reading.min_voltage = 2800 /\ g_reading.max_voltage = 3600
     /\ g_reading.voltage = 2900 /\ g_reading.temp = 300)
        => g_status[1] = "warning"

\* C3 amended: the LFP reading with voltage 2.90 and temperature 30 is
\* classified critical, because 2.90 < 2.8 * 1.05 = 2.94.
C3_LfpLowVoltageCritical ==
    (/\ g_pc = "classified"
     /\ g_reading.min_voltage = 2800 /\ g_reading.max_voltage = 3600
     /\ g_reading.voltage = 2900 /\ g_reading.temp = 300)
        => g_status[1] = "critical"

C3_Witness ==
    /\ g_pc = "classified"
    /\ g_reading.min_voltage = 2800 /\ g_reading.max_voltage = 3600
    /\ g_reading.voltage = 2900 /\ g_reading.temp = 300
    /\ g_status = <<"critical", "warning_sign">>

\* C4: the status is one of normal, warning, critical; it is critical
\* whenever the critical condition holds, also when the warning condition
\* holds too; warning exactly when the critical condition is false and the
\* warning condition true; normal otherwise.
C4_ThreeLevelsCriticalFirst ==
    g_pc = "classified" =>
        LET v == g_reading.voltage
            lo == g_reading.min_voltage
            hi == g_reading.max_voltage
            critical == Below(v, lo, 105) \/ Above(v, hi, 95) \/ g_reading.temp > 400
            warning == Below(v, lo, 110) \/ Above(v, hi, 90) \/ g_reading.temp > 350
        IN  /\ g_status[1] \in {"normal", "warning", "critical"}
            /\ critical => g_status[1] = "critical"
            /\ g_status[1] = "warning" <=> (~critical /\ warning)
            /\ g_status[1] = "normal" <=> (~critical /\ ~warning)

C4_Witness ==
    /\ g_pc = "classified"
    /\ g_code = S_nmc
    /\ g_reading.voltage = 3900
    /\ g_reading.temp = 351
    /\ g_status[1] = "critical"

----------------------------------------------------------------------------
(* Properties of the dashboard *)

\* C6: every refresh cycle (a click on Update Data, an auto-refresh rerun)
\* regenerates a reading for every configured cell and then renders them:
\* when the script run of such a cycle ends, by reaching the end of the
\* script or by the auto-refresh rerun, the cycle has completed a generation
\* pass and drawn the status grid of all configured cells; and no render
\* reads a partially filled cells_data.
C6_RefreshCycleOnePass ==
    [][/\ pc = "render" => Len(cells_data) = Len(gen_types)
       /\ ((Render \/ AutoRerun) /\ trigger \in {"update", "auto"})
              => /\ regen
                 /\ page' # <<"info">>
                 /\ Len(page') = Len(cell_types)]_vars

\* C9 as stated: wherever the dashboard reads cells_data to render, its keys
\* are exactly cell_{i}_{type_i} for the currently configured cells.
C9_KeysMatchCurrentConfiguration ==
    pc = "render" =>
        LET Ordinal == <<<<"1">>, <<"2">>, <<"3">>, <<"4">>, <<"5">>, <<"6">>,
                         <<"7">>, <<"8">>, <<"9">>, <<"1", "0">>, <<"1", "1">>,
                         <<"1", "2">>>>
        IN  /\ Len(cells_data) = Len(cell_types)
            /\ \A i \in 1..Len(cell_types) :
                   cells_data[i].key
                       = <<"c", "e", "l", "l", "_">> \o Ordinal[i] \o <<"_">> \o cell_types[i]

\* C9 amended: wherever the dashboard reads cells_data to render, its keys
\* are exactly cell_{i}_{type_i} for the cell count and the cell types that
\* session_state.cell_types held when cells_data was last generated (Update
\* Data or the initial generation); in a cycle that generated the data these
\* are the current configuration.
C9_KeysMatchGeneratedConfiguration ==
    pc = "render" =>
        LET Ordinal == <<<<"1">>, <<"2">>, <<"3">>, <<"4">>, <<"5">>, <<"6">>,
                         <<"7">>, <<"8">>, <<"9">>, <<"1", "0">>, <<"1", "1">>,
                         <<"1", "2">>>>
        IN  /\ Len(cells_data) = Len(gen_types)
            /\ Len(gen_types) >= 1
            /\ \A i \in 1..Len(gen_types) :
                   cells_data[i].key
                       = <<"c", "e", "l", "l", "_">> \o Ordinal[i] \o <<"_">> \o gen_types[i]
            /\ regen => gen_types = cell_types

C9_Witness ==
    /\ pc = "render"
    /\ trigger = "widget"
    /\ Len(cell_types) = 1
    /\ cell_types[1] = S_lco
    /\ Len(cells_data) = 2
    /\ cells_data[2].key = <<"c", "e", "l", "l", "_", "2", "_", "l", "f", "p">>

----------------------------------------------------------------------------
(* Properties of the console script *)

\* C7 as stated: every entry the console script stores for a cell type has
\* voltage, current, temp, capacity, min_voltage and max_voltage that
\* generate_cell_data can return for that cell type.
C7_ScriptEntryIsGeneratorOutput ==
    p2_cells_data # <<>> =>
        LET n == Len(p2_cells_data)
            e == p2_cells_data[n].data
            code == list_of_cell[n]
        IN  /\ \E u_var \in VarDraws, u_cur \in (10 * e.current - 5)..(10 * e.current + 5) :
                   LET r == generate_cell_data(code, n, u_var, u_cur, 2500)
                   IN  /\ u_cur \in -5000..5000
                       /\ r.voltage = e.voltage
                       /\ r.current = e.current
                       /\ r.capacity = e.capacity
                       /\ r.min_voltage = e.min_voltage
                       /\ r.max_voltage = e.max_voltage
            /\ \E u_temp \in (10 * e.temp - 5)..(10 * e.temp + 5) :
                   /\ u_temp \in 2500..4500
                   /\ generate_cell_data(code, n, 0, 0, u_temp).temp = e.temp

\* C7 amended: the entry is a possible output of generate_cell_data for every
\* cell type except lco and lmo; for lco and lmo the script stores the NMC
\* values (voltage 3.6, limits 3.2 and 4.0), whose max_voltage is not the one
\* generate_cell_data returns for them.
C7_ScriptEntryIsGeneratorOutputUnlessLcoLmo ==
    p2_cells_data # <<>> =>
        LET n == Len(p2_cells_data)
            e == p2_cells_data[n].data
            code == list_of_cell[n]
        IN  IF code \in {<<"l", "c", "o">>, <<"l", "m", "o">>}
            THEN /\ e.voltage = 3600 /\ e.min_voltage = 3200 /\ e.max_voltage = 4000
                 /\ e.max_voltage # generate_cell_data(code, n, 0, 0, 2500).max_voltage
            ELSE /\ \E u_var \in VarDraws,
                       u_cur \in (10 * e.current - 5)..(10 * e.current + 5) :
                        LET r == generate_cell_data(code, n, u_var, u_cur, 2500)
                        IN  /\ u_cur \in -5000..5000
                            /\ r.voltage = e.voltage
                            /\ r.current = e.current
                            /\ r.capacity = e.capacity
                            /\ r.min_voltage = e.min_voltage
                            /\ r.max_voltage = e.max_voltage
                 /\ \E u_temp \in (10 * e.temp - 5)..(10 * e.temp + 5) :
                        /\ u_temp \in 2500..4500
                        /\ generate_cell_data(code, n, 0, 0, u_temp).temp = e.temp

C7_Witness ==
    /\ p2_pc = "done"
    /\ list_of_cell = <<S_lfp, S_lco>>
    /\ p2_cells_data[1].data.voltage = 3200
    /\ p2_cells_data[1].data.min_voltage = 2800
    /\ p2_cells_data[2].data.min_voltage = 3200

====
